---------------------------- MODULE Spec2Model ----------------------------
(***************************************************************************)
(* Classification-and-graph pipeline of the CAD research-paper corpus:     *)
(* scripts/filter_and_classify.py (Classifier) and                         *)
(* scripts/build_knowledge_graph.py (Graph Builder).                       *)
(*                                                                         *)
(* Texts are TLC strings; a Python dict is a TLA+ record whose DOMAIN is   *)
(* the set of keys present; a Python list is a sequence; an ordered dict   *)
(* (a keyword table) is a sequence of [name, keywords] entries in          *)
(* declaration order.                                                      *)
(***************************************************************************)
EXTENDS Integers, Sequences, FiniteSets, TLC

VARIABLES
    paper,          \* SpecClassify: the raw record handed to the classifier
    seen_in,        \* SpecClassify: the seen_ids argument
    result,         \* SpecClassify: what filter_and_classify_papers returned
    raw_papers_file,    \* data/raw_papers.json
    seen_papers_file,   \* data/seen_papers.json (a sorted list of ids)
    new_papers_file,    \* data/new_papers.json
    last_call,      \* Spec: arguments and result of the latest classify call
    prior_inputs,   \* Spec: identifiers in the inputs of the calls before it
    prior_accepted, \* Spec: identifiers accepted by the calls before it
    corpus,         \* SpecGraph: the papers argument of build_knowledge_graph
    graph,          \* SpecGraph: the graph returned by the latest build
    first_nodes,    \* SpecGraph: node set of the first build of this corpus
    builds,         \* SpecGraph: "none", or is the graph "fresh" or "stale"
    enriched_papers_file,   \* data/enriched_papers.json
    knowledge_graph_file,   \* data/knowledge_graph.json
    graph_run,      \* how the latest run of the graph builder's main ended
    runs,           \* SpecConcurrent: where each classifier execution stands
    overlap         \* SpecConcurrent: has an execution started during the other?

vars == <<paper, seen_in, result, raw_papers_file, seen_papers_file,
          new_papers_file, last_call, prior_inputs, prior_accepted,
          corpus, graph, first_nodes, builds,
          enriched_papers_file, knowledge_graph_file, graph_run, runs, overlap>>

classifyVars == <<paper, seen_in, result>>
pipelineVars == <<raw_papers_file, seen_papers_file, new_papers_file,
                  last_call, prior_inputs, prior_accepted>>
graphVars == <<corpus, graph, first_nodes, builds>>
corpusVars == <<enriched_papers_file, knowledge_graph_file, graph_run>>
execVars == <<runs, overlap>>

(***************************************************************************)
(* Policy tables.                                                          *)
(***************************************************************************)
EXCLUSION_KEYWORDS ==
    << "finite element", "FEM", "FEA", "CAE",
       "structural analysis", "stress analysis",
       "modal analysis", "thermal analysis",
       "fluid dynamics", "CFD",
       "toolpath", "CNC", "CAM", "machining",
       "additive manufacturing", "3D printing",
       "subtractive manufacturing",
       "material properties", "material science",
       "metallurgy", "composite materials",
       "robot control", "motion planning",
       "path planning", "trajectory optimization",
       "manipulation without geometry",
       "physics simulation", "rigid body dynamics",
       "collision detection", "contact mechanics" >>

STRONG_INCLUSION_KEYWORDS ==
    << "BREP", "B-Rep", "boundary representation",
       "sketch", "constraint", "parametric",
       "feature-based", "feature graph",
       "CAD model", "solid model",
       "geometric learning", "geometry learning",
       "shape representation", "shape generation",
       "CAD generation", "CAD synthesis" >>

GEOMETRY_REPRESENTATIONS ==
    << [name |-> "BREP", keywords |-> <<"brep", "b-rep", "boundary representation", "solid model">>],
       [name |-> "Sketch", keywords |-> <<"sketch", "drawing", "2d profile">>],
       [name |-> "Mesh", keywords |-> <<"mesh", "triangular mesh", "polygon mesh">>],
       [name |-> "Point Cloud", keywords |-> <<"point cloud", "point set">>],
       [name |-> "Feature Graph", keywords |-> <<"feature graph", "feature tree", "cad graph">>],
       [name |-> "Voxel", keywords |-> <<"voxel", "volumetric">>],
       [name |-> "Implicit", keywords |-> <<"implicit", "sdf", "signed distance">>] >>

TECHNIQUES ==
    << [name |-> "Transformer", keywords |-> <<"transformer", "attention", "bert", "gpt">>],
       [name |-> "GNN", keywords |-> <<"graph neural", "gnn", "graph convolution", "gcn">>],
       [name |-> "Diffusion", keywords |-> <<"diffusion", "denoising", "score-based">>],
       [name |-> "RL", keywords |-> <<"reinforcement learning", "rl", "policy">>],
       [name |-> "CNN", keywords |-> <<"convolutional", "cnn", "resnet", "unet">>],
       [name |-> "VAE", keywords |-> <<"vae", "variational autoencoder">>],
       [name |-> "Hybrid", keywords |-> <<"hybrid", "multi-modal">>] >>

DOMAIN_KEYWORDS ==
    << [name |-> "CAD Geometry Core",
        keywords |-> <<"cad", "parametric", "feature-based", "brep", "solid modeling">>],
       [name |-> "Computer Vision for Geometry",
        keywords |-> <<"image to cad", "vision", "reconstruction", "recognition">>],
       [name |-> "Reinforcement Learning for Geometry",
        keywords |-> <<"reinforcement learning", "rl", "policy", "agent">>],
       [name |-> "Diffusion Models for Geometry",
        keywords |-> <<"diffusion", "denoising", "score-based", "generative">>],
       [name |-> "Multimodal Geometry Models",
        keywords |-> <<"multimodal", "multi-modal", "text to cad", "language">>],
       [name |-> "Graph-Based Geometry Learning",
        keywords |-> <<"graph", "gnn", "graph neural">>],
       [name |-> "Sketch / Constraint Understanding",
        keywords |-> <<"sketch", "constraint", "drawing">>],
       [name |-> "Shape Representation Learning",
        keywords |-> <<"shape representation", "geometry representation", "encoding">>] >>

OTHER_DOMAIN == "Other Geometry-CAD AI"
OTHER_TAG == "Other"

(***************************************************************************)
(* Python string primitives.                                               *)
(***************************************************************************)
UpperAlpha == "ABCDEFGHIJKLMNOPQRSTUVWXYZ"
LowerAlpha == "abcdefghijklmnopqrstuvwxyz"

\* str.lower() on one character: A..Z map to a..z, anything else is kept.
LowerOf ==
    [c \in {SubSeq(UpperAlpha, i, i) : i \in 1..Len(UpperAlpha)} |->
        LET i == CHOOSE j \in 1..Len(UpperAlpha) : SubSeq(UpperAlpha, j, j) = c
        IN  SubSeq(LowerAlpha, i, i)]

\* str.lower(): every character mapped, the string split in halves to keep
\* the evaluation shallow.
RECURSIVE lower(_)
lower(s) ==
    IF Len(s) = 0 THEN ""
    ELSE IF Len(s) = 1 THEN (IF s \in DOMAIN LowerOf THEN LowerOf[s] ELSE s)
    ELSE LET h == Len(s) \div 2
         IN  lower(SubSeq(s, 1, h)) \o lower(SubSeq(s, h + 1, Len(s)))

\* Python's `k in t` on strings: k occurs in t as a contiguous substring.
Contains(k, t) ==
    \E i \in 1..(Len(t) - Len(k) + 1) : SubSeq(t, i, i + Len(k) - 1) = k

\* s[:n]
Prefix(s, n) == SubSeq(s, 1, IF Len(s) < n THEN Len(s) ELSE n)

Has(d, key) == key \in DOMAIN d

\* The values of a sequence.
Range(s) == {s[i] : i \in 1..Len(s)}


(***************************************************************************)
(* Classifier: filter_and_classify.py                                      *)
(***************************************************************************)
\* f"{paper['title']} {paper['abstract']}".lower()
PaperText(p) == lower(p.title \o " " \o p.abstract)

\* `keyword.lower() in text` for some keyword of the list, in list order.
AnyKeywordIn(keywords, text) ==
    \E i \in 1..Len(keywords) : Contains(lower(keywords[i]), text)

\* Mutant of should_exclude: a strong-inclusion keyword overrides exclusion.
should_exclude_unless_strong(p) ==
    /\ AnyKeywordIn(EXCLUSION_KEYWORDS, PaperText(p))
    /\ ~AnyKeywordIn(STRONG_INCLUSION_KEYWORDS, PaperText(p))

should_exclude(p) == AnyKeywordIn(EXCLUSION_KEYWORDS, PaperText(p))

has_geometry_focus(p) ==
    LET text == PaperText(p)
        geometry_mentions ==
            Cardinality({r \in 1..Len(GEOMETRY_REPRESENTATIONS) :
                AnyKeywordIn(GEOMETRY_REPRESENTATIONS[r].keywords, text)})
    IN  IF AnyKeywordIn(STRONG_INCLUSION_KEYWORDS, text) THEN TRUE
        ELSE geometry_mentions > 0

\* The inner loop of classify_domain: score += 1 for each keyword present.
RECURSIVE domain_score(_, _, _, _)
domain_score(keywords, text, k, score) ==
    IF k > Len(keywords) THEN score
    ELSE domain_score(keywords, text, k + 1,
            IF Contains(lower(keywords[k]), text) THEN score + 1 ELSE score)

\* Mutant of max_key: the running best is replaced on an equal score too, so
\* the last-declared domain wins a tie.
RECURSIVE max_key_last(_, _, _)
max_key_last(scores, d, best) ==
    IF d > Len(scores) THEN best
    ELSE max_key_last(scores, d + 1, IF scores[d] >= scores[best] THEN d ELSE best)

\* max(domain_scores, key=domain_scores.get): the dict is walked in insertion
\* order and the running best is replaced only by a strictly greater score.
RECURSIVE max_key(_, _, _)
max_key(scores, d, best) ==
    IF d > Len(scores) THEN best
    ELSE max_key(scores, d + 1, IF scores[d] > scores[best] THEN d ELSE best)

\* max(domain_scores.values())
RECURSIVE max_value(_, _, _)
max_value(scores, d, best) ==
    IF d > Len(scores) THEN best
    ELSE max_value(scores, d + 1, IF scores[d] > best THEN scores[d] ELSE best)

classify_domain(p) ==
    LET text == PaperText(p)
        domain_scores ==
            [d \in 1..Len(DOMAIN_KEYWORDS) |->
                domain_score(DOMAIN_KEYWORDS[d].keywords, text, 1, 0)]
    IN  IF max_value(domain_scores, 2, domain_scores[1]) > 0
        THEN DOMAIN_KEYWORDS[max_key(domain_scores, 2, 1)].name
        ELSE OTHER_DOMAIN

\* Mutant of detect_loop: no break, a category is appended once per matching
\* keyword.
RECURSIVE append_times(_, _, _)
append_times(detected, name, n) ==
    IF n = 0 THEN detected ELSE append_times(Append(detected, name), name, n - 1)

RECURSIVE detect_loop_no_break(_, _, _, _)
detect_loop_no_break(table, text, c, detected) ==
    IF c > Len(table) THEN detected
    ELSE detect_loop_no_break(table, text, c + 1,
            append_times(detected, table[c].name,
                Cardinality({k \in 1..Len(table[c].keywords) :
                                Contains(lower(table[c].keywords[k]), text)})))

\* The loop shared by detect_techniques and detect_representations: a category
\* is appended once, at its first matching keyword (break).
RECURSIVE detect_loop(_, _, _, _)
detect_loop(table, text, c, detected) ==
    IF c > Len(table) THEN detected
    ELSE detect_loop(table, text, c + 1,
            IF AnyKeywordIn(table[c].keywords, text)
            THEN Append(detected, table[c].name) ELSE detected)

detect_techniques(p) ==
    LET detected == detect_loop(TECHNIQUES, PaperText(p), 1, <<>>)
    IN  IF detected /= <<>> THEN detected ELSE <<OTHER_TAG>>

detect_representations(p) ==
    LET detected == detect_loop(GEOMETRY_REPRESENTATIONS, PaperText(p), 1, <<>>)
    IN  IF detected /= <<>> THEN detected ELSE <<OTHER_TAG>>

\* paper['domain'] = ...; paper['techniques'] = ...; paper['representations'] = ...
WithTags(p, domain, techniques, representations) ==
    [k \in DOMAIN p \cup {"domain", "techniques", "representations"} |->
        IF k = "domain" THEN domain
        ELSE IF k = "techniques" THEN techniques
        ELSE IF k = "representations" THEN representations
        ELSE p[k]]

\* Mutant of already_seen: only identifiers added during this call count.
already_seen_this_call(arxiv_id, seen_ids, new_seen_ids) ==
    arxiv_id \in (new_seen_ids \ seen_ids)

\* `if arxiv_id in seen_ids` (the seen_ids argument, not new_seen_ids).
already_seen(arxiv_id, seen_ids, new_seen_ids) == arxiv_id \in seen_ids

\* Mutant of mark_seen: the identifier is not recorded.
mark_seen_dropped(new_seen_ids, arxiv_id) == new_seen_ids

\* `new_seen_ids.add(arxiv_id)`, run for every record not skipped.
mark_seen(new_seen_ids, arxiv_id) == new_seen_ids \cup {arxiv_id}

\* What a dict lookup of a missing key raises.
KeyError(key) == [status |-> "KeyError", key |-> key]

\* The record loop of filter_and_classify_papers from record i on.  `evaluated`
\* lists the identifiers that got past the skip (a ghost of the control flow).
RECURSIVE classify_loop(_, _, _, _, _, _)
classify_loop(raw_papers, seen_ids, i, accepted, new_seen_ids, evaluated) ==
    IF i > Len(raw_papers)
    THEN [status |-> "ok", accepted |-> accepted, seen_ids |-> new_seen_ids,
          evaluated |-> evaluated]
    ELSE LET p == raw_papers[i] IN
        IF ~Has(p, "arxiv_id") THEN KeyError("arxiv_id")
        ELSE IF already_seen(p.arxiv_id, seen_ids, new_seen_ids)
        THEN classify_loop(raw_papers, seen_ids, i + 1, accepted, new_seen_ids,
                           evaluated)
        ELSE LET marked == mark_seen(new_seen_ids, p.arxiv_id)
                 ev == Append(evaluated, p.arxiv_id)
             IN  IF ~Has(p, "title") THEN KeyError("title")
                 ELSE IF ~Has(p, "abstract") THEN KeyError("abstract")
                 ELSE IF should_exclude(p)
                 THEN classify_loop(raw_papers, seen_ids, i + 1, accepted, marked, ev)
                 ELSE IF ~has_geometry_focus(p)
                 THEN classify_loop(raw_papers, seen_ids, i + 1, accepted, marked, ev)
                 ELSE classify_loop(raw_papers, seen_ids, i + 1,
                        Append(accepted,
                               WithTags(p, classify_domain(p), detect_techniques(p),
                                        detect_representations(p))),
                        marked, ev)

\* Mutant of filter_and_classify_papers: new_seen_ids starts empty instead of
\* as a copy of seen_ids.
filter_and_classify_papers_fresh_set(raw_papers, seen_ids) ==
    classify_loop(raw_papers, seen_ids, 1, <<>>, {}, <<>>)

filter_and_classify_papers(raw_papers, seen_ids) ==
    classify_loop(raw_papers, seen_ids, 1, <<>>, seen_ids, <<>>)

(***************************************************************************)
(* Graph Builder: build_knowledge_graph.py                                 *)
(***************************************************************************)
\* value.replace(' ', '_').replace('/', '_')
RECURSIVE clean_value(_)
clean_value(value) ==
    IF Len(value) = 0 THEN ""
    ELSE IF Len(value) = 1 THEN (IF value \in {" ", "/"} THEN "_" ELSE value)
    ELSE LET h == Len(value) \div 2
         IN  clean_value(SubSeq(value, 1, h)) \o clean_value(SubSeq(value, h + 1, Len(value)))

create_node_id(node_type, value) == node_type \o ":" \o clean_value(value)

\* The graph under construction with build_knowledge_graph's local tallies.
\* A defaultdict(int) is a sequence of [key, count] entries in insertion order.
EmptyGraph ==
    [nodes |-> <<>>, edges |-> <<>>, seen_nodes |-> {},
     author_paper_count |-> <<>>, domain_paper_count |-> <<>>,
     technique_paper_count |-> <<>>, representation_paper_count |-> <<>>]

\* Mutant of add_node: the node is appended whether or not its id was seen.
add_node_again(g, node_id, node_type, properties) ==
    [g EXCEPT !.nodes = Append(@, [id |-> node_id, type |-> node_type,
                                   properties |-> properties]),
              !.seen_nodes = @ \cup {node_id}]

add_node(g, node_id, node_type, properties) ==
    IF node_id \notin g.seen_nodes
    THEN [g EXCEPT !.nodes = Append(@, [id |-> node_id, type |-> node_type,
                                        properties |-> properties]),
                   !.seen_nodes = @ \cup {node_id}]
    ELSE g

\* Mutant of add_edge: an edge that is already in the list is not added again.
add_edge_collapsing(g, source, target, edge_type, properties) ==
    IF \E i \in 1..Len(g.edges) :
          /\ g.edges[i].source = source
          /\ g.edges[i].target = target
          /\ g.edges[i].type = edge_type
    THEN g
    ELSE [g EXCEPT !.edges = Append(@, [source |-> source, target |-> target,
                                        type |-> edge_type, properties |-> properties])]

add_edge(g, source, target, edge_type, properties) ==
    [g EXCEPT !.edges = Append(@, [source |-> source, target |-> target,
                                   type |-> edge_type, properties |-> properties])]

\* counts[key] += 1
RECURSIVE increment(_, _)
increment(counts, key) ==
    IF counts = <<>> THEN <<[key |-> key, count |-> 1]>>
    ELSE IF Head(counts).key = key
    THEN <<[key |-> key, count |-> Head(counts).count + 1]>> \o Tail(counts)
    ELSE <<Head(counts)>> \o increment(Tail(counts), key)

\* `properties or {}`: the empty dict.
NoProperties == <<>>

\* for author in paper['authors']: node, 'authored' edge, tally.
RECURSIVE add_authors(_, _, _, _)
add_authors(g, paper_id, authors, i) ==
    IF i > Len(authors) THEN g
    ELSE LET author_id == create_node_id("author", authors[i])
             g1 == add_node(g, author_id, "author", [name |-> authors[i]])
             g2 == add_edge(g1, author_id, paper_id, "authored", [role |-> "author"])
         IN  add_authors([g2 EXCEPT !.author_paper_count = increment(@, authors[i])],
                         paper_id, authors, i + 1)

\* for technique in paper.get('techniques', []): node, edge, tally.
RECURSIVE add_techniques(_, _, _, _)
add_techniques(g, paper_id, techniques, i) ==
    IF i > Len(techniques) THEN g
    ELSE LET technique_id == create_node_id("technique", techniques[i])
             g1 == add_node(g, technique_id, "technique", [name |-> techniques[i]])
             g2 == add_edge(g1, paper_id, technique_id, "uses_technique", NoProperties)
         IN  add_techniques([g2 EXCEPT !.technique_paper_count = increment(@, techniques[i])],
                            paper_id, techniques, i + 1)

\* for representation in paper.get('representations', []): node, edge, tally.
RECURSIVE add_representations(_, _, _, _)
add_representations(g, paper_id, representations, i) ==
    IF i > Len(representations) THEN g
    ELSE LET rep_id == create_node_id("representation", representations[i])
             g1 == add_node(g, rep_id, "representation", [name |-> representations[i]])
             g2 == add_edge(g1, paper_id, rep_id, "uses_representation", NoProperties)
         IN  add_representations(
                [g2 EXCEPT !.representation_paper_count = increment(@, representations[i])],
                paper_id, representations, i + 1)

\* paper.get('domain', 'Other Geometry-CAD AI')
get_domain(p) == IF Has(p, "domain") THEN p.domain ELSE OTHER_DOMAIN

\* paper.get('techniques', []) and paper.get('representations', [])
get_tags(p, key) == IF Has(p, key) THEN p[key] ELSE <<>>

\* The keys build_knowledge_graph reads with paper[...], in the order read.
RequiredKeys == <<"arxiv_id", "title", "abstract", "published_date", "pdf_link", "authors">>

FirstMissing(p) ==
    LET missing == {i \in 1..Len(RequiredKeys) : ~Has(p, RequiredKeys[i])}
    IN  IF missing = {} THEN 0 ELSE CHOOSE i \in missing : \A j \in missing : i <= j

paper_properties(p) ==
    [arxiv_id |-> p.arxiv_id, title |-> p.title, abstract |-> p.abstract,
     published_date |-> p.published_date, pdf_link |-> p.pdf_link,
     citation_count |-> IF Has(p, "citation_count") THEN p.citation_count ELSE 0,
     venue |-> IF Has(p, "venue") THEN p.venue ELSE "arXiv",
     year |-> IF Has(p, "year") THEN p.year ELSE Prefix(p.published_date, 4)]

\* One pass of `for paper in papers`.
add_paper(g, p) ==
    LET paper_id == create_node_id("paper", p.arxiv_id)
        g1 == add_node(g, paper_id, "paper", paper_properties(p))
        g2 == add_authors(g1, paper_id, p.authors, 1)
        domain == get_domain(p)
        domain_id == create_node_id("domain", domain)
        g3 == add_node(g2, domain_id, "domain", [name |-> domain])
        g4 == add_edge(g3, paper_id, domain_id, "belongs_to_domain", NoProperties)
        g5 == [g4 EXCEPT !.domain_paper_count = increment(@, domain)]
        g6 == add_techniques(g5, paper_id, get_tags(p, "techniques"), 1)
    IN  [status |-> "ok",
         g |-> add_representations(g6, paper_id, get_tags(p, "representations"), 1)]

RECURSIVE build_loop(_, _, _)
build_loop(g, papers, i) ==
    IF i > Len(papers) THEN [status |-> "ok", g |-> g]
    ELSE IF FirstMissing(papers[i]) /= 0
    THEN KeyError(RequiredKeys[FirstMissing(papers[i])])
    ELSE LET r == add_paper(g, papers[i])
         IN  IF r.status /= "ok" THEN r ELSE build_loop(r.g, papers, i + 1)

\* len([n for n in graph['nodes'] if n['type'] == node_type])
count_nodes(nodes, node_type) ==
    Cardinality({i \in 1..Len(nodes) : nodes[i].type = node_type})

\* sorted(items, key=count, reverse=True): a stable sort, so entries of equal
\* count keep their insertion order.
\* Mutant of insert_by_count: an entry goes before the entries of equal count.
RECURSIVE insert_by_count_unstable(_, _)
insert_by_count_unstable(sorted, e) ==
    IF sorted = <<>> THEN <<e>>
    ELSE IF Head(sorted).count > e.count
    THEN <<Head(sorted)>> \o insert_by_count_unstable(Tail(sorted), e)
    ELSE <<e>> \o sorted

RECURSIVE insert_by_count(_, _)
insert_by_count(sorted, e) ==
    IF sorted = <<>> THEN <<e>>
    ELSE IF Head(sorted).count >= e.count
    THEN <<Head(sorted)>> \o insert_by_count(Tail(sorted), e)
    ELSE <<e>> \o sorted

RECURSIVE sorted_by_count(_, _, _)
sorted_by_count(items, i, sorted) ==
    IF i > Len(items) THEN sorted
    ELSE sorted_by_count(items, i + 1, insert_by_count(sorted, items[i]))

TopAuthorsLimit == 10

build_knowledge_graph(papers) ==
    LET r == build_loop(EmptyGraph, papers, 1)
    IN  IF r.status /= "ok" THEN r
        ELSE [status |-> "ok",
              nodes |-> r.g.nodes,
              edges |-> r.g.edges,
              metadata |->
                [total_papers |-> count_nodes(r.g.nodes, "paper"),
                 total_authors |-> count_nodes(r.g.nodes, "author"),
                 total_domains |-> count_nodes(r.g.nodes, "domain"),
                 total_techniques |-> count_nodes(r.g.nodes, "technique"),
                 total_representations |-> count_nodes(r.g.nodes, "representation"),
                 top_authors |-> Prefix(sorted_by_count(r.g.author_paper_count, 1, <<>>),
                                        TopAuthorsLimit),
                 domain_distribution |-> r.g.domain_paper_count,
                 technique_distribution |-> r.g.technique_paper_count,
                 representation_distribution |-> r.g.representation_paper_count]]

(***************************************************************************)
(* SpecClassify: one call of filter_and_classify_papers on a one-record    *)
(* batch, the record and the seen-set drawn from bounded sets.             *)
(***************************************************************************)
MaxWords == 2

Titles == {"A BREP Transformer", "Finite", "Deep Learning"}

Words == {"element mesh", "BREP BREP brep", "diffusion denoising", "sketch",
          "point cloud", "real world", "camera", "feature graph",
          "graph neural gnn", "parametric"}

RECURSIVE join(_)
join(ws) ==
    IF ws = <<>> THEN ""
    ELSE IF Len(ws) = 1 THEN ws[1]
    ELSE ws[1] \o " " \o join(Tail(ws))

Abstracts == {join(ws) : ws \in UNION {[1..n -> Words] : n \in 0..MaxWords}}

InputId == "2401.00001v1"

WellFormed(id, title, abstract, authors) ==
    [arxiv_id |-> id, title |-> title, abstract |-> abstract, authors |-> authors,
     published_date |-> "2024-01-01",
     pdf_link |-> "https://arxiv.org/pdf/" \o id \o ".pdf"]

Without(d, key) == [k \in DOMAIN d \ {key} |-> d[k]]

\* The worked example of the specification.
ExampleRecord ==
    WellFormed(InputId, "A BREP Transformer for CAD Generation",
               "We use a transformer on boundary representation graphs for CAD generation.",
               <<"A. Smith", "B. Lee">>)

ClassifyInputs ==
    {WellFormed(InputId, t, a, <<"A. Smith">>) : t \in Titles, a \in Abstracts}
    \cup {ExampleRecord}
    \cup {Without(WellFormed(InputId, "A BREP Transformer", "sketch", <<"A. Smith">>), k) :
            k \in {"arxiv_id", "title", "abstract", "authors", "published_date", "pdf_link"}}

NoResult == [status |-> "none"]
NoRecords == <<>>
NoGraph == [status |-> "none"]
NoCall == [status |-> "none"]

PipelineIdle ==
    /\ raw_papers_file = NoRecords
    /\ seen_papers_file = <<>>
    /\ new_papers_file = NoRecords
    /\ last_call = NoCall
    /\ prior_inputs = {}
    /\ prior_accepted = {}

GraphIdle ==
    /\ corpus = NoRecords
    /\ graph = NoGraph
    /\ first_nodes = {}
    /\ builds = "none"

Executions == {1, 2}

NotStarted == [pc |-> "idle"]

ExecIdle ==
    /\ runs = [e \in Executions |-> NotStarted]
    /\ overlap = FALSE

CorpusIdle ==
    /\ enriched_papers_file = NoRecords
    /\ knowledge_graph_file = NoGraph
    /\ graph_run = "none"

ClassifyIdle ==
    /\ paper = [arxiv_id |-> InputId]
    /\ seen_in = {}
    /\ result = NoResult

InitClassify ==
    /\ paper \in ClassifyInputs
    /\ seen_in \in {{}, {InputId}}
    /\ result = NoResult
    /\ PipelineIdle
    /\ GraphIdle
    /\ CorpusIdle
    /\ ExecIdle

Classify ==
    /\ result = NoResult
    /\ result' = filter_and_classify_papers(<<paper>>, seen_in)
    /\ UNCHANGED <<paper, seen_in>>
    /\ UNCHANGED pipelineVars
    /\ UNCHANGED graphVars
    /\ UNCHANGED corpusVars
    /\ UNCHANGED execVars

\* build_knowledge_graph.py on the records the call accepted.
BuildAccepted ==
    /\ result /= NoResult
    /\ result.status = "ok"
    /\ result.accepted /= <<>>
    /\ graph = NoGraph
    /\ corpus' = result.accepted
    /\ graph' = build_knowledge_graph(result.accepted)
    /\ UNCHANGED <<first_nodes, builds>>
    /\ UNCHANGED classifyVars
    /\ UNCHANGED pipelineVars
    /\ UNCHANGED corpusVars
    /\ UNCHANGED execVars

NextClassify == Classify \/ BuildAccepted

SpecClassify == InitClassify /\ [][NextClassify]_vars

(***************************************************************************)
(* Spec: the fetcher writes raw_papers.json, the classifier's main reads   *)
(* it with seen_papers.json and overwrites new_papers.json and             *)
(* seen_papers.json.                                                       *)
(***************************************************************************)
MaxBatch == 2

\* The records the feed can deliver, one per identifier.
FeedRecords ==
    { WellFormed("2401.00001v1", "A BREP Transformer", "sketch", <<"A. Smith", "B. Lee">>),
      WellFormed("2401.00002v1", "Deep Learning", "camera", <<"B. Lee">>),
      WellFormed("cs/0101001", "Deep Learning", "point cloud", <<"C. Roy", "A. Smith">>) }

\* The identifiers of FeedRecords in the order Python's sorted() gives them.
SortedIds == <<"2401.00001v1", "2401.00002v1", "cs/0101001">>

RawBatches == UNION {[1..n -> FeedRecords] : n \in 1..MaxBatch}

\* sorted(list(seen_ids)), as save_seen_papers writes it.
RECURSIVE sorted_from(_, _)
sorted_from(ids, i) ==
    IF i > Len(SortedIds) THEN <<>>
    ELSE (IF SortedIds[i] \in ids THEN <<SortedIds[i]>> ELSE <<>>)
            \o sorted_from(ids, i + 1)

save_seen_papers(seen_ids) == sorted_from(seen_ids, 1)

\* Mutant of load_seen_papers: the file is taken as absent.
load_seen_papers_absent(data) == {}

\* set(data), as load_seen_papers returns it.
load_seen_papers(data) == Range(data)

Ids(records) == [i \in 1..Len(records) |-> records[i].arxiv_id]

Init ==
    /\ raw_papers_file = NoRecords
    /\ seen_papers_file = <<>>
    /\ new_papers_file = NoRecords
    /\ last_call = NoCall
    /\ prior_inputs = {}
    /\ prior_accepted = {}
    /\ ClassifyIdle
    /\ GraphIdle
    /\ CorpusIdle
    /\ ExecIdle

\* fetch_arxiv.py main: a non-empty batch replaces raw_papers.json.
FetchFrom(batches) ==
    /\ \E batch \in batches :
         /\ batch /= raw_papers_file
         /\ raw_papers_file' = batch
    /\ UNCHANGED <<seen_papers_file, new_papers_file, last_call, prior_inputs,
                   prior_accepted>>
    /\ UNCHANGED classifyVars
    /\ UNCHANGED graphVars
    /\ UNCHANGED corpusVars
    /\ UNCHANGED execVars

Fetch == FetchFrom(RawBatches)

\* Mutant of kept_on_error: the file was opened for writing before the error.
kept_on_error_truncated(content) == <<>>

\* An exception leaves main before its save calls: the file keeps its content.
kept_on_error(content) == content

\* filter_and_classify.py main: load both files, classify, save both files.
\* A KeyError leaves main before either save.
ClassifierMain ==
    LET raw_papers == raw_papers_file
        seen_ids == load_seen_papers(seen_papers_file)
        r == filter_and_classify_papers(raw_papers, seen_ids)
    IN  /\ prior_inputs' =
              IF last_call = NoCall THEN {} ELSE prior_inputs \cup Range(last_call.raw_ids)
        /\ prior_accepted' =
              IF last_call = NoCall \/ last_call.status /= "ok" THEN prior_accepted
              ELSE prior_accepted \cup Range(last_call.accepted_ids)
        /\ IF r.status = "ok"
           THEN /\ new_papers_file' = r.accepted
                /\ seen_papers_file' = save_seen_papers(r.seen_ids)
                /\ last_call' = [status |-> "ok",
                                 raw_ids |-> Ids(raw_papers),
                                 seen_in |-> seen_ids,
                                 accepted_ids |-> Ids(r.accepted),
                                 evaluated |-> r.evaluated,
                                 seen_out |-> r.seen_ids]
           ELSE /\ new_papers_file' = kept_on_error(new_papers_file)
                /\ seen_papers_file' = kept_on_error(seen_papers_file)
                /\ last_call' = [status |-> r.status,
                                 raw_ids |-> <<>>,
                                 seen_in |-> seen_ids]
        /\ UNCHANGED raw_papers_file
        /\ UNCHANGED classifyVars
        /\ UNCHANGED graphVars
        /\ UNCHANGED corpusVars
        /\ UNCHANGED execVars

Next == Fetch \/ ClassifierMain

Spec == Init /\ [][Next]_vars

(***************************************************************************)
(* Enrichment: enrich_citations.py, and the mains of the later stages.     *)
(***************************************************************************)
\* dict[key] = value
Put(d, key, value) == [k \in DOMAIN d \cup {key} |-> IF k = key THEN value ELSE d[k]]

\* dict.get(key, default)
Get(d, key, default) == IF Has(d, key) THEN d[key] ELSE default

\* What the two Semantic Scholar lookups of one paper end with: None, or the
\* metadata dict of the paper (the year is kept as its decimal rendering).
NotFound == [found |-> FALSE]
S2Answers ==
    { NotFound,
      [found |-> TRUE,
       data |-> [citationCount |-> 7, venue |-> "SIGGRAPH", year |-> "2023",
                 paperId |-> "s2-649def"]],
      [found |-> TRUE, data |-> [citationCount |-> 3]] }

\* enrich_paper: the title and the identifier are read first; the default of
\* the year, paper['published_date'][:4], is evaluated on both branches.
enrich_paper(p, s2_data) ==
    IF ~Has(p, "title") THEN KeyError("title")
    ELSE IF ~Has(p, "arxiv_id") THEN KeyError("arxiv_id")
    ELSE IF ~Has(p, "published_date") THEN KeyError("published_date")
    ELSE LET default_year == Prefix(p.published_date, 4)
             cited == IF s2_data.found
                      THEN Put(Put(Put(p, "citation_count", Get(s2_data.data, "citationCount", 0)),
                                   "venue", Get(s2_data.data, "venue", "arXiv")),
                               "year", Get(s2_data.data, "year", default_year))
                      ELSE Put(Put(Put(p, "citation_count", 0), "venue", "arXiv"),
                               "year", default_year)
         IN  [status |-> "ok",
              paper |-> IF s2_data.found /\ Has(s2_data.data, "paperId")
                        THEN Put(cited, "semantic_scholar_id", s2_data.data.paperId)
                        ELSE cited]

\* enrich_papers: the papers in order, lookups[i] being what the lookups of
\* the i-th paper end with.
RECURSIVE enrich_papers(_, _, _, _)
enrich_papers(papers, lookups, i, enriched) ==
    IF i > Len(papers) THEN [status |-> "ok", enriched |-> enriched]
    ELSE LET r == enrich_paper(papers[i], lookups[i])
         IN  IF r.status /= "ok" THEN r
             ELSE enrich_papers(papers, lookups, i + 1, Append(enriched, r.paper))

\* [p for p in new_papers if p['arxiv_id'] not in existing_ids]
RECURSIVE not_yet_enriched(_, _, _)
not_yet_enriched(new_papers, existing_ids, i) ==
    IF i > Len(new_papers) THEN <<>>
    ELSE (IF new_papers[i].arxiv_id \in existing_ids THEN <<>> ELSE <<new_papers[i]>>)
            \o not_yet_enriched(new_papers, existing_ids, i + 1)

\* enrich_citations.py main: the papers of new_papers.json that are not in
\* enriched_papers.json yet are enriched and appended to it.
\* (With nothing to enrich main returns at once.)
EnrichMain ==
    LET new_papers == new_papers_file
        existing_enriched == enriched_papers_file
        existing_ids == Range(Ids(existing_enriched))
        to_enrich == not_yet_enriched(new_papers, existing_ids, 1)
    IN  /\ new_papers /= <<>>
        /\ to_enrich /= <<>>
        /\ \E lookups \in [1..Len(to_enrich) -> S2Answers] :
             LET r == enrich_papers(to_enrich, lookups, 1, <<>>)
             IN  enriched_papers_file' =
                    IF r.status = "ok" THEN existing_enriched \o r.enriched
                    ELSE kept_on_error(enriched_papers_file)
        /\ UNCHANGED <<knowledge_graph_file, graph_run>>
        /\ UNCHANGED execVars
        /\ UNCHANGED pipelineVars
        /\ UNCHANGED classifyVars
        /\ UNCHANGED graphVars

\* build_knowledge_graph.py main: the graph of enriched_papers.json replaces
\* knowledge_graph.json; a KeyError leaves main before the save.
\* (With an empty corpus main returns at once.)
GraphMain ==
    LET papers == enriched_papers_file
        g == build_knowledge_graph(papers)
    IN  /\ papers /= <<>>
        /\ graph_run' = g.status
        /\ knowledge_graph_file' =
              IF g.status = "ok" THEN g ELSE kept_on_error(knowledge_graph_file)
        /\ UNCHANGED enriched_papers_file
        /\ UNCHANGED execVars
        /\ UNCHANGED pipelineVars
        /\ UNCHANGED classifyVars
        /\ UNCHANGED graphVars

\* SpecPipeline: the four stages over the files, run in any order, the feed
\* delivering batches of two records the classifier accepts.
GeometryRecords == {r \in FeedRecords : r.arxiv_id \in {"2401.00001v1", "cs/0101001"}}

GeometryBatches == UNION {[1..n -> GeometryRecords] : n \in 1..MaxBatch}

FetchGeometry == FetchFrom(GeometryBatches)

NextPipeline == FetchGeometry \/ ClassifierMain \/ EnrichMain \/ GraphMain

SpecPipeline == Init /\ [][NextPipeline]_vars

(***************************************************************************)
(* SpecFaulty: the four stages over the files, the feed delivering records *)
(* that lack a field next to a well-formed one.                            *)
(***************************************************************************)
GoodRecord ==
    WellFormed("2401.00001v1", "A BREP Transformer", "sketch", <<"A. Smith", "B. Lee">>)
NoTitleRecord ==
    Without(WellFormed("2401.00002v1", "Deep Learning", "mesh", <<"B. Lee">>), "title")
NoLinkRecord ==
    Without(WellFormed("cs/0101001", "Deep Learning", "point cloud", <<"C. Roy">>), "pdf_link")
NoDateRecord ==
    Without(WellFormed("2401.00002v1", "Deep Learning", "voxel", <<"B. Lee">>), "published_date")

\* The batches the feed delivers: a malformed record alone, before and after
\* a well-formed one.
FaultyBatches ==
    { <<GoodRecord>>, <<NoTitleRecord>>, <<NoLinkRecord>>, <<NoDateRecord>>,
      <<GoodRecord, NoTitleRecord>>, <<NoTitleRecord, GoodRecord>>,
      <<GoodRecord, NoLinkRecord>>, <<NoLinkRecord, GoodRecord>>,
      <<NoDateRecord, GoodRecord>> }

\* raw_papers.json as an upstream regression leaves it.
FetchFaulty == FetchFrom(FaultyBatches)

NextFaulty == FetchFaulty \/ ClassifierMain \/ EnrichMain \/ GraphMain

SpecFaulty == Init /\ [][NextFaulty]_vars

(***************************************************************************)
(* SpecConcurrent: two executions of the classifier's main over the same   *)
(* files, each a sequence of its file reads and writes; the fetcher may    *)
(* replace raw_papers.json at any time.                                    *)
(***************************************************************************)
Running(e) == runs[e].pc \notin {"idle", "done"}

\* raw_papers = load_json(raw_papers_file)
LoadRaw(e) ==
    /\ runs[e].pc = "idle"
    /\ runs' = [runs EXCEPT ![e] = [pc |-> "loaded_raw", raw_papers |-> raw_papers_file]]
    /\ overlap' = (overlap \/ \E o \in Executions \ {e} : Running(o))
    /\ UNCHANGED pipelineVars
    /\ UNCHANGED classifyVars
    /\ UNCHANGED graphVars
    /\ UNCHANGED corpusVars

\* seen_ids = load_seen_papers(seen_papers_file)
LoadSeen(e) ==
    /\ runs[e].pc = "loaded_raw"
    /\ runs' = [runs EXCEPT ![e] = [pc |-> "loaded_seen",
                                    raw_papers |-> runs[e].raw_papers,
                                    seen_ids |-> load_seen_papers(seen_papers_file)]]
    /\ UNCHANGED overlap
    /\ UNCHANGED pipelineVars
    /\ UNCHANGED classifyVars
    /\ UNCHANGED graphVars
    /\ UNCHANGED corpusVars

\* filter_and_classify_papers(raw_papers, seen_ids), then
\* save_json(accepted_papers, new_papers_file); a KeyError ends the execution.
SaveNew(e) ==
    /\ runs[e].pc = "loaded_seen"
    /\ LET r == filter_and_classify_papers(runs[e].raw_papers, runs[e].seen_ids)
       IN  IF r.status = "ok"
           THEN /\ new_papers_file' = r.accepted
                /\ runs' = [runs EXCEPT ![e] = [pc |-> "saved_new",
                                                evaluated |-> Range(r.evaluated),
                                                updated_seen_ids |-> r.seen_ids]]
           ELSE /\ new_papers_file' = kept_on_error(new_papers_file)
                /\ runs' = [runs EXCEPT ![e] = [pc |-> "done", evaluated |-> {}]]
    /\ UNCHANGED <<raw_papers_file, seen_papers_file, last_call, prior_inputs,
                   prior_accepted, overlap>>
    /\ UNCHANGED classifyVars
    /\ UNCHANGED graphVars
    /\ UNCHANGED corpusVars

\* save_seen_papers(updated_seen_ids, seen_papers_file)
SaveSeen(e) ==
    /\ runs[e].pc = "saved_new"
    /\ seen_papers_file' = save_seen_papers(runs[e].updated_seen_ids)
    /\ runs' = [runs EXCEPT ![e] = [pc |-> "done", evaluated |-> runs[e].evaluated]]
    /\ UNCHANGED <<raw_papers_file, new_papers_file, last_call, prior_inputs,
                   prior_accepted, overlap>>
    /\ UNCHANGED classifyVars
    /\ UNCHANGED graphVars
    /\ UNCHANGED corpusVars

\* The fetcher delivers one record at a time.
SingleBatches == {<<r>> : r \in FeedRecords}

FetchSingle == FetchFrom(SingleBatches)

NextConcurrent ==
    \/ FetchSingle
    \/ \E e \in Executions : LoadRaw(e) \/ LoadSeen(e) \/ SaveNew(e) \/ SaveSeen(e)

SpecConcurrent == Init /\ [][NextConcurrent]_vars

(***************************************************************************)
(* SpecGraph: build_knowledge_graph on a corpus drawn from a bounded set;  *)
(* the corpus may be reordered between builds.                             *)
(***************************************************************************)
MaxCorpus == 3

Tagged(p, domain, techniques, representations) ==
    WithTags(p, domain, techniques, representations)

\* Corpus records: two whose identifiers and author names differ textually but
\* normalize alike, one enriched, and two that never went through the
\* classifier (no domain; no techniques and representations).
CorpusRecords ==
    { Tagged(WellFormed("cs/0101001", "A BREP Transformer", "sketch", <<"A Smith", "B. Lee">>),
             "CAD Geometry Core", <<"Transformer">>, <<"BREP", "Sketch">>),
      Tagged(WellFormed("cs_0101001", "Deep Learning", "point cloud", <<"A_Smith">>),
             OTHER_DOMAIN, <<OTHER_TAG>>, <<"Point Cloud">>),
      [k \in DOMAIN WellFormed("2401.00003v1", "Deep Learning", "mesh", <<"B. Lee">>)
              \cup {"domain", "techniques", "representations", "citation_count", "venue", "year"} |->
          IF k = "citation_count" THEN 7
          ELSE IF k = "venue" THEN "SIGGRAPH"
          ELSE IF k = "year" THEN "2024"
          ELSE Tagged(WellFormed("2401.00003v1", "Deep Learning", "mesh", <<"B. Lee">>),
                      OTHER_DOMAIN, <<OTHER_TAG>>, <<"Mesh">>)[k]],
      Without(Tagged(WellFormed("2401.00004v1", "Finite", "sketch", <<"A Smith">>),
                     "Sketch / Constraint Understanding", <<OTHER_TAG>>, <<"Sketch">>),
              "domain"),
      WellFormed("2401.00005v1", "Deep Learning", "voxel", <<"C. Roy">>),
      Tagged(WellFormed("2401.00006v1", "A BREP Transformer", "mesh",
                        <<"D. Kim", "E. Wu", "F. Ito", "G. Rao", "H. Li", "I. Paz",
                          "J. Xu", "K. Oh", "L. Ek", "M. Su", "N. Yi">>),
             "CAD Geometry Core", <<"Transformer">>, <<"BREP", "Mesh">>) }

Corpora == UNION {[1..n -> CorpusRecords] : n \in 1..MaxCorpus}

InitGraph ==
    /\ corpus \in Corpora
    /\ graph = NoGraph
    /\ first_nodes = {}
    /\ builds = "none"
    /\ ClassifyIdle
    /\ PipelineIdle
    /\ CorpusIdle
    /\ ExecIdle

\* The node list as a set of (id, type, properties) triples.
NodeSet(g) == {<<g.nodes[i].id, g.nodes[i].type, g.nodes[i].properties>> : i \in 1..Len(g.nodes)}

\* build_knowledge_graph.py main on the current corpus: the snapshot is
\* replaced by a graph rebuilt from scratch.
BuildGraph ==
    /\ graph' = build_knowledge_graph(corpus)
    /\ first_nodes' = IF builds = "none" /\ graph'.status = "ok"
                      THEN NodeSet(graph') ELSE first_nodes
    /\ builds' = "fresh"
    /\ UNCHANGED corpus
    /\ UNCHANGED classifyVars
    /\ UNCHANGED pipelineVars
    /\ UNCHANGED corpusVars
    /\ UNCHANGED execVars

\* The corpus is handed over in another order: two neighbours swapped.
Reorder ==
    /\ \E i \in 1..(Len(corpus) - 1) :
         /\ corpus[i] /= corpus[i + 1]
         /\ corpus' = [corpus EXCEPT ![i] = corpus[i + 1], ![i + 1] = corpus[i]]
    /\ builds' = IF builds = "none" THEN "none" ELSE "stale"
    /\ UNCHANGED <<graph, first_nodes>>
    /\ UNCHANGED classifyVars
    /\ UNCHANGED pipelineVars
    /\ UNCHANGED corpusVars
    /\ UNCHANGED execVars

NextGraph == BuildGraph \/ Reorder

SpecGraph == InitGraph /\ [][NextGraph]_vars

(***************************************************************************)
(* Properties of one classify call (SpecClassify).                         *)
(***************************************************************************)
\* The policy as the specification words it: a keyword occurs in a record when
\* its lower-cased form is a substring of the lower-cased "title abstract".
Occurs(keyword, p) ==
    LET text == lower(p.title \o " " \o p.abstract)
        k == lower(keyword)
    IN  \E i \in 0..(Len(text) - Len(k)) : SubSeq(text, i + 1, i + Len(k)) = k

ExclusionOccurs(p) == \E k \in Range(EXCLUSION_KEYWORDS) : Occurs(k, p)
StrongOccurs(p) == \E k \in Range(STRONG_INCLUSION_KEYWORDS) : Occurs(k, p)
MatchedCategories(table, p) ==
    {table[c].name : c \in {c \in 1..Len(table) :
                              \E k \in Range(table[c].keywords) : Occurs(k, p)}}
PresenceScore(d, p) ==
    Cardinality({k \in Range(DOMAIN_KEYWORDS[d].keywords) : Occurs(k, p)})
DomainEnumeration ==
    {DOMAIN_KEYWORDS[d].name : d \in 1..Len(DOMAIN_KEYWORDS)} \cup {OTHER_DOMAIN}

Returned == result.status = "ok"
Evaluated == Returned /\ paper.arxiv_id \notin seen_in
Accepted == Evaluated /\ result.accepted /= <<>>

\* C4: a one-record call whose record's identifier is already in the seen-set
\* returns no accepted record and the seen-set unchanged, whatever the record's
\* title and abstract are (or whether it has them at all).
C4_SeenRecordIsNoOp ==
    (result /= NoResult /\ Has(paper, "arxiv_id") /\ paper.arxiv_id \in seen_in)
        => /\ result.status = "ok"
           /\ result.accepted = <<>>
           /\ result.seen_ids = seen_in

C4_Witness ==
    /\ Returned
    /\ paper.arxiv_id \in seen_in
    /\ Has(paper, "title") /\ Has(paper, "abstract")
    /\ StrongOccurs(paper) /\ ~ExclusionOccurs(paper)

\* C5: a record not yet seen is accepted exactly when no exclusion keyword
\* occurs in it and a strong-inclusion keyword or a representation keyword
\* does; exclusion wins over inclusion.
C5_AcceptedIffPolicy ==
    Evaluated =>
        (result.accepted /= <<>>
            <=> /\ ~ExclusionOccurs(paper)
                /\ \/ StrongOccurs(paper)
                   \/ MatchedCategories(GEOMETRY_REPRESENTATIONS, paper) /= {})

C5_Witness ==
    /\ Evaluated
    /\ ExclusionOccurs(paper) /\ StrongOccurs(paper)
    /\ result.accepted = <<>>

\* C6: the domain of an accepted record is the first-declared domain among
\* those with the highest count of keywords present, or the sentinel domain
\* when every count is zero; it is always one of the enumerated domains.
C6_DomainIsFirstArgMax ==
    Accepted =>
        LET dom == result.accepted[1].domain
            D == 1..Len(DOMAIN_KEYWORDS)
        IN  /\ Len(result.accepted) = 1
            /\ dom \in DomainEnumeration
            /\ IF \A d \in D : PresenceScore(d, paper) = 0
               THEN dom = OTHER_DOMAIN
               ELSE \E d \in D :
                        /\ dom = DOMAIN_KEYWORDS[d].name
                        /\ \A e \in D : PresenceScore(e, paper) <= PresenceScore(d, paper)
                        /\ \A e \in D : e < d =>
                                PresenceScore(e, paper) < PresenceScore(d, paper)

C6_Witness ==
    /\ Accepted
    /\ \E d, e \in 1..Len(DOMAIN_KEYWORDS) :
         /\ d < e
         /\ PresenceScore(d, paper) = PresenceScore(e, paper)
         /\ PresenceScore(d, paper) > 0
         /\ \A f \in 1..Len(DOMAIN_KEYWORDS) :
                PresenceScore(f, paper) <= PresenceScore(d, paper)
         /\ result.accepted[1].domain = DOMAIN_KEYWORDS[d].name

TagsAre(tags, table, p) ==
    /\ tags /= <<>>
    /\ Cardinality(Range(tags)) = Len(tags)
    /\ IF MatchedCategories(table, p) = {}
       THEN tags = <<OTHER_TAG>>
       ELSE Range(tags) = MatchedCategories(table, p)

\* C7: techniques and representations of an accepted record are each the
\* duplicate-free collection of the categories with a keyword present, or the
\* single sentinel tag when there is none; neither is empty.
C7_TagsAreMatchedCategories ==
    Accepted =>
        /\ TagsAre(result.accepted[1].techniques, TECHNIQUES, paper)
        /\ TagsAre(result.accepted[1].representations, GEOMETRY_REPRESENTATIONS, paper)

C7_Witness ==
    /\ Accepted
    /\ result.accepted[1].techniques = <<OTHER_TAG>>
    /\ Len(result.accepted[1].representations) >= 2

\* The fields a raw record is required to carry.
RequiredFields ==
    {"arxiv_id", "title", "abstract", "authors", "published_date", "pdf_link"}

MissingFields(p) == RequiredFields \ DOMAIN p

\* C11: a call on a batch holding a record that lacks a required field
\* (identifier, title, abstract, authors, publication date or link) fails
\* with a structural error naming a missing field and accepts nothing,
\* whether or not the record's identifier was already seen.
C11_MalformedRecordFailsBatch ==
    (result /= NoResult /\ MissingFields(paper) /= {})
        => /\ result.status = "KeyError"
           /\ result.key \in MissingFields(paper)

CountNodes(g, node_type) ==
    Cardinality({i \in 1..Len(g.nodes) : g.nodes[i].type = node_type})
CountEdges(g, edge_type) ==
    Cardinality({i \in 1..Len(g.edges) : g.edges[i].type = edge_type})

\* C13: the record titled "A BREP Transformer for CAD Generation" with the
\* abstract "We use a transformer on boundary representation graphs for CAD
\* generation." and authors A. Smith and B. Lee, classified against an empty
\* seen-set, is accepted with domain CAD Geometry Core, techniques
\* {Transformer} and representations {BREP}; the graph of that one record has
\* 1 paper, 2 author, 1 domain, 1 technique and 1 representation node and 5
\* edges: 2 authored, 1 belongs_to_domain, 1 uses_technique and 1
\* uses_representation.
C13_WorkedExample ==
    (paper = ExampleRecord /\ seen_in = {} /\ result /= NoResult)
        => /\ result.status = "ok"
           /\ Len(result.accepted) = 1
           /\ result.accepted[1].domain = "CAD Geometry Core"
           /\ result.accepted[1].techniques = <<"Transformer">>
           /\ result.accepted[1].representations = <<"BREP">>
           /\ graph /= NoGraph =>
                /\ graph.status = "ok"
                /\ CountNodes(graph, "paper") = 1
                /\ CountNodes(graph, "author") = 2
                /\ CountNodes(graph, "domain") = 1
                /\ CountNodes(graph, "technique") = 1
                /\ CountNodes(graph, "representation") = 1
                /\ Len(graph.nodes) = 6
                /\ CountEdges(graph, "authored") = 2
                /\ CountEdges(graph, "belongs_to_domain") = 1
                /\ CountEdges(graph, "uses_technique") = 1
                /\ CountEdges(graph, "uses_representation") = 1
                /\ Len(graph.edges) = 5

C13_Witness ==
    /\ paper = ExampleRecord
    /\ seen_in = {}
    /\ graph /= NoGraph

(***************************************************************************)
(* Properties of sequences of classifier runs (Spec).                      *)
(***************************************************************************)
CallReturned == last_call /= NoCall /\ last_call.status = "ok"

\* C1: a call that receives the seen-set the earlier calls produced skips
\* every identifier that occurred in an earlier call's input, accepted or
\* rejected there, and so accepts no identifier an earlier call accepted.
C1_EarlierInputsAreSkipped ==
    CallReturned =>
        /\ prior_inputs \cap Range(last_call.evaluated) = {}
        /\ prior_inputs \cap Range(last_call.accepted_ids) = {}
        /\ prior_accepted \cap Range(last_call.accepted_ids) = {}

C1_Witness ==
    /\ CallReturned
    /\ \E r \in Range(last_call.raw_ids) : r \in prior_inputs \ prior_accepted
    /\ prior_accepted /= {}
    /\ last_call.accepted_ids /= <<>>

\* C2: the accepted records of one call never hold two records with the same
\* identifier: a second occurrence within the batch is skipped, not evaluated
\* again.
C2_NoDuplicateWithinCall ==
    CallReturned =>
        /\ Cardinality(Range(last_call.accepted_ids)) = Len(last_call.accepted_ids)
        /\ Cardinality(Range(last_call.evaluated)) = Len(last_call.evaluated)

\* C3: the seen-set a call returns is its seen_ids argument united with every
\* identifier of its raw records, and the persisted seen-set holds every
\* identifier any run has met: it never loses one.
C3_SeenSetIsUnionAndGrows ==
    CallReturned =>
        /\ last_call.seen_out = last_call.seen_in \cup Range(last_call.raw_ids)
        /\ load_seen_papers(seen_papers_file) = last_call.seen_out
        /\ load_seen_papers(seen_papers_file)
              = prior_inputs \cup Range(last_call.raw_ids)

C3_Witness ==
    /\ CallReturned
    /\ last_call.seen_in /= {}
    /\ Range(last_call.raw_ids) \ last_call.seen_in /= {}
    /\ Range(last_call.raw_ids) \ Range(last_call.accepted_ids) /= {}
    /\ last_call.seen_in \ Range(last_call.raw_ids) /= {}

(***************************************************************************)
(* Properties of the enriched corpus (SpecPipeline).                       *)
(***************************************************************************)
\* C16: after any sequence of classifier runs and enrichment merges the
\* enriched corpus holds at most one record per identifier, and the graph
\* snapshot built from it has one set of edges per paper: no two of its
\* edges join the same nodes with the same type.
C16_OneRecordPerIdentifier ==
    /\ \A i, j \in 1..Len(enriched_papers_file) :
          enriched_papers_file[i].arxiv_id = enriched_papers_file[j].arxiv_id => i = j
    /\ knowledge_graph_file /= NoGraph =>
          \A i, j \in 1..Len(knowledge_graph_file.edges) :
              (/\ knowledge_graph_file.edges[i].source = knowledge_graph_file.edges[j].source
               /\ knowledge_graph_file.edges[i].target = knowledge_graph_file.edges[j].target
               /\ knowledge_graph_file.edges[i].type = knowledge_graph_file.edges[j].type)
                  => i = j

\* The identifiers accepted by the classifier runs so far.
EverAccepted ==
    prior_accepted \cup (IF CallReturned THEN Range(last_call.accepted_ids) ELSE {})

\* C18: when an enrichment run completes, every record that some classifier
\* run has accepted before it is in the enriched corpus, whatever the order
\* of the classifier and enrichment runs, two classifier runs in a row
\* included.
C18_AcceptedReachCorpus ==
    [][EnrichMain => EverAccepted \subseteq Range(Ids(enriched_papers_file'))]_vars

(***************************************************************************)
(* Properties of two classifier executions (SpecConcurrent).               *)
(***************************************************************************)
BothDone == \A e \in Executions : runs[e].pc = "done"

\* An identifier that an execution evaluated is missing from the seen-set file.
LostUpdate ==
    \E e \in Executions : \E id \in runs[e].evaluated : id \notin Range(seen_papers_file)

\* C17: when two classifier executions that each read the seen-set file once
\* and overwrite it once have both finished, an identifier one of them marked
\* seen can be missing from the file only if they overlapped; when one ran
\* after the other the file holds every identifier either evaluated.
C17_SerializedRunsLoseNothing ==
    (BothDone /\ LostUpdate) => overlap

\* The lost update: both executions have finished, they overlapped, and an
\* identifier one of them evaluated is not in the file.
C17_Witness ==
    /\ BothDone
    /\ overlap
    /\ LostUpdate

\* Two executions, one after the other, each evaluated a record.
SerializedBothEvaluated ==
    /\ BothDone
    /\ ~overlap
    /\ \A e \in Executions : runs[e].evaluated /= {}

(***************************************************************************)
(* Properties of aborted runs (SpecFaulty).                                *)
(***************************************************************************)
ClassifierAborts == ClassifierMain /\ last_call'.status = "KeyError"
GraphBuilderAborts == GraphMain /\ graph_run' = "KeyError"

\* C12: a run of the classifier or of the graph builder that aborts with an
\* error leaves the seen-set file, the accepted-records file, the enriched
\* corpus and the graph snapshot exactly as they were before the run, so the
\* next run starts from the files the failed run found.
C12_AbortKeepsFiles ==
    [][(ClassifierAborts \/ GraphBuilderAborts)
         => UNCHANGED <<seen_papers_file, new_papers_file, enriched_papers_file,
                        knowledge_graph_file>>]_vars

\* Both stages have aborted on top of files written by earlier runs.
C12_Witness ==
    /\ last_call /= NoCall
    /\ last_call.status = "KeyError"
    /\ seen_papers_file /= <<>>
    /\ new_papers_file /= NoRecords
    /\ graph_run = "KeyError"
    /\ knowledge_graph_file /= NoGraph

(***************************************************************************)
(* Properties of the graph builder (SpecGraph).                            *)
(***************************************************************************)
Built == builds = "fresh" /\ graph.status = "ok"

PaperNodeIds(g) == [i \in {i \in 1..Len(g.nodes) : g.nodes[i].type = "paper"} |-> g.nodes[i].id]

\* C8: the graph built from any reordering of a corpus has the same set of
\* (node id, type, properties) triples as the graph first built from it, also
\* when two author names or two paper identifiers normalize to one node id.
C8_NodeSetIsOrderIndependent ==
    Built => NodeSet(graph) = first_nodes

\* C9: on every build of a corpus, metadata.total_papers is the number of
\* distinct paper identifiers among its records, and no two paper nodes share
\* a node id.
C9_TotalPapersIsDistinctIds ==
    Built =>
        /\ graph.metadata.total_papers = Cardinality(Range(Ids(corpus)))
        /\ \A i, j \in DOMAIN PaperNodeIds(graph) :
                PaperNodeIds(graph)[i] = PaperNodeIds(graph)[j] => i = j

\* The tags of a record under a key, none when the key is absent.
TagsOf(p, key) == IF Has(p, key) THEN p[key] ELSE <<>>

\* The (source, target, type) triples one record contributes, in the order of
\* its author list, its domain, its technique tags, its representation tags.
EdgesOf(p) ==
    LET paper_id == create_node_id("paper", p.arxiv_id)
    IN  [j \in 1..Len(p.authors) |->
            <<create_node_id("author", p.authors[j]), paper_id, "authored">>]
        \o << <<paper_id,
                create_node_id("domain", IF Has(p, "domain") THEN p.domain ELSE OTHER_DOMAIN),
                "belongs_to_domain">> >>
        \o [j \in 1..Len(TagsOf(p, "techniques")) |->
            <<paper_id, create_node_id("technique", p.techniques[j]), "uses_technique">>]
        \o [j \in 1..Len(TagsOf(p, "representations")) |->
            <<paper_id, create_node_id("representation", p.representations[j]),
              "uses_representation">>]

RECURSIVE EdgesOfAll(_)
EdgesOfAll(records) ==
    IF records = <<>> THEN <<>> ELSE EdgesOf(Head(records)) \o EdgesOfAll(Tail(records))

RECURSIVE EdgeTotal(_)
EdgeTotal(records) ==
    IF records = <<>> THEN 0
    ELSE Len(Head(records).authors) + 1 + Len(TagsOf(Head(records), "techniques"))
            + Len(TagsOf(Head(records), "representations")) + EdgeTotal(Tail(records))

\* C14: each record of the corpus contributes its own edges exactly once and
\* none is collapsed: one authored edge from the author to the paper per
\* entry of its author list, one belongs_to_domain edge, one uses_technique
\* edge per technique tag and one uses_representation edge per
\* representation tag; the number of edges is the sum over the records of
\* |authors| + 1 + |techniques| + |representations|.
C14_EdgesArePerRecord ==
    Built =>
        /\ Len(graph.edges) = EdgeTotal(corpus)
        /\ [i \in 1..Len(graph.edges) |->
                <<graph.edges[i].source, graph.edges[i].target, graph.edges[i].type>>]
             = EdgesOfAll(corpus)

\* A built corpus in which the same record occurs twice.
C14_Witness ==
    /\ Built
    /\ \E i, j \in 1..Len(corpus) : i < j /\ corpus[i] = corpus[j]
    /\ Len(graph.edges) > Cardinality(Range(graph.edges))

\* The author entries of the corpus in the order the builder meets them.
RECURSIVE AuthorEntries(_)
AuthorEntries(records) ==
    IF records = <<>> THEN <<>>
    ELSE Head(records).authors \o AuthorEntries(Tail(records))

PaperCount(author) ==
    Cardinality({k \in 1..Len(AuthorEntries(corpus)) : AuthorEntries(corpus)[k] = author})

FirstMet(author) ==
    CHOOSE k \in 1..Len(AuthorEntries(corpus)) :
        /\ AuthorEntries(corpus)[k] = author
        /\ \A l \in 1..(k - 1) : AuthorEntries(corpus)[l] /= author

\* a ranks before b: more papers, or as many and met earlier.
RanksBefore(a, b) ==
    \/ PaperCount(a) > PaperCount(b)
    \/ PaperCount(a) = PaperCount(b) /\ FirstMet(a) < FirstMet(b)

\* C15: metadata.top_authors holds at most 10 (author, count) pairs in
\* non-increasing order of count, the authors of highest count; among authors
\* of equal count the one met first in the corpus comes first, and is the one
\* kept when the cut at 10 falls inside a tie.
C15_TopAuthorsAreStableTopTen ==
    Built =>
        LET top == graph.metadata.top_authors
            authors == Range(AuthorEntries(corpus))
            listed == {top[i].key : i \in 1..Len(top)}
        IN  /\ Len(top) <= 10
            /\ Len(top) = IF Cardinality(authors) < 10 THEN Cardinality(authors) ELSE 10
            /\ \A i \in 1..Len(top) :
                    /\ top[i].key \in authors
                    /\ top[i].count = PaperCount(top[i].key)
            /\ \A i, j \in 1..Len(top) :
                    i < j => /\ top[i].count >= top[j].count
                             /\ RanksBefore(top[i].key, top[j].key)
            /\ \A a \in authors \ listed : \A b \in listed : RanksBefore(b, a)

\* More than 10 authors, the cut falls inside a tie, and an author met later
\* has more papers than authors met before.
C15_Witness ==
    /\ Built
    /\ Cardinality(Range(AuthorEntries(corpus))) > 10
    /\ LET top == graph.metadata.top_authors
       IN  /\ Len(top) = 10
           /\ \E a \in Range(AuthorEntries(corpus)) :
                 /\ \A i \in 1..Len(top) : top[i].key /= a
                 /\ PaperCount(a) = top[10].count
           /\ FirstMet(top[1].key) > FirstMet(top[2].key)

\* The node types an edge of a type runs between.
SourceType(edge_type) == IF edge_type = "authored" THEN "author" ELSE "paper"
TargetType(edge_type) ==
    IF edge_type = "authored" THEN "paper"
    ELSE IF edge_type = "belongs_to_domain" THEN "domain"
    ELSE IF edge_type = "uses_technique" THEN "technique"
    ELSE "representation"

HasNode(g, node_id, node_type) ==
    \E i \in 1..Len(g.nodes) : g.nodes[i].id = node_id /\ g.nodes[i].type = node_type

\* C19: in every graph build_knowledge_graph returns, no two nodes share an
\* id, and the source and the target of every edge are ids of nodes of the
\* list, of the types the edge type asks for (authored: author to paper;
\* belongs_to_domain: paper to domain; uses_technique: paper to technique;
\* uses_representation: paper to representation).
C19_GraphIsWellFormed ==
    Built =>
        /\ \A i, j \in 1..Len(graph.nodes) :
                graph.nodes[i].id = graph.nodes[j].id => i = j
        /\ \A i \in 1..Len(graph.edges) :
                /\ graph.edges[i].type \in {"authored", "belongs_to_domain",
                                            "uses_technique", "uses_representation"}
                /\ HasNode(graph, graph.edges[i].source, SourceType(graph.edges[i].type))
                /\ HasNode(graph, graph.edges[i].target, TargetType(graph.edges[i].type))

\* A built corpus in which a node is met again by a later record.
C19_Witness ==
    /\ Built
    /\ \E i, j \in 1..Len(graph.edges) :
          /\ i < j
          /\ graph.edges[i].type = "authored"
          /\ graph.edges[j].type = "authored"
          /\ graph.edges[i].source = graph.edges[j].source
          /\ graph.edges[i].target /= graph.edges[j].target

LacksTag(p) == \E k \in {"domain", "techniques", "representations"} : ~Has(p, k)

\* C10: a corpus holding a record without its domain, techniques or
\* representations tag makes the build fail and yields no graph.
C10_MissingTagFailsBuild ==
    (builds = "fresh" /\ \E i \in 1..Len(corpus) : LacksTag(corpus[i]))
        => graph.status /= "ok"

=============================================================================
